---- MODULE Spec2Model ----
(***************************************************************************)
(* Model of the playlist assembly engine of agents/music_curator.py:       *)
(* curate_playlist and the helpers it calls (_bucket_tracks_by_phase,      *)
(* _phase_target_ms, _total_duration_ms, _ask_dedalus_to_curate) together  *)
(* with the track-pool search of bpm_service.py (search_tracks_by_bpm).    *)
(*                                                                         *)
(* A track is a record [id, has_bpm, bpm, duration_ms, genre, source,      *)
(* phase]; has_bpm = FALSE stands for bpm = None, phase = "none" for a     *)
(* track that carries no "phase" key yet.  A plan fraction is held in      *)
(* percent (25 stands for 0.25).                                           *)
(***************************************************************************)
EXTENDS Integers, Sequences, FiniteSets, TLC

VARIABLES
    workout_plan,     \* curate_playlist argument: ranges and fractions
    familiar_tracks,  \* curate_playlist argument
    workout_minutes,  \* curate_playlist argument
    dataset,          \* rows of the CSV behind search_tracks_by_bpm
    pc,               \* position inside curate_playlist
    buckets,          \* result of _bucket_tracks_by_phase
    familiar_ids,     \* the exclude set threaded through the phases
    phase_i,          \* index into phases of the phase being processed
    target_ms,        \* target of the phase being processed
    candidates,       \* candidate list of the phase being processed
    offered,          \* the candidate list as passed to the advisory call
    advisory,         \* reply of the advisory call of the phase just curated
    phase_tracks,     \* tracks selected for the phase just curated
    final_playlist,   \* playlist before the final dedup pass
    deduped,          \* value returned by curate_playlist
    searches,         \* log of the gap-fill searches that returned so far
    topup,            \* log of the global top-up search, if issued
    calls,            \* attempts made so far at each external call site
    fallback_only,    \* every advisory call so far ended in the except branch
    build,            \* a call of build_workout_playlist: arguments, locals, result
    hints             \* the discovery-hints call and the genre merge that follows

vars == <<workout_plan, familiar_tracks, workout_minutes, dataset, pc, buckets,
          familiar_ids, phase_i, target_ms, candidates, offered, advisory,
          phase_tracks, final_playlist, deduped, searches, topup, calls,
          fallback_only, build, hints>>

\* the variables of curate_playlist's phases
cvars == <<workout_plan, familiar_tracks, workout_minutes, dataset, pc, buckets,
           familiar_ids, phase_i, target_ms, candidates, offered, advisory,
           phase_tracks, final_playlist, deduped, searches, topup, calls,
           fallback_only>>

(***************************************************************************)
(* Bounds of the model.                                                    *)
(***************************************************************************)
MaxFamiliar == 2
MaxReply == 2
MaxCand == 3
MaxBucketTracks == 2

(***************************************************************************)
(* Program constants.                                                      *)
(***************************************************************************)
MinRequested == 12
MaxRequested == 80
AvgTrackMs == 180000
RequestBuffer == 6
TopUpThresholdMs == 120000

phases == <<"warmup", "peak", "cooldown">>
PhaseSet == {"warmup", "peak", "cooldown"}
PhaseIndex(p) == CHOOSE i \in 1..3 : phases[i] = p

(***************************************************************************)
(* Arithmetic and sequence helpers.                                        *)
(***************************************************************************)
Abs(x) == IF x < 0 THEN -x ELSE x
Min2(a, b) == IF a <= b THEN a ELSE b
Max2(a, b) == IF a >= b THEN a ELSE b
\* Python int(): truncation toward zero of n / d, d > 0
IntTrunc(n, d) == IF n >= 0 THEN n \div d ELSE -((-n) \div d)

Range(s) == {s[i] : i \in DOMAIN s}
IdsOf(s) == {s[i].id : i \in DOMAIN s}
DistinctIds(s) == \A i, j \in DOMAIN s : s[i].id = s[j].id => i = j

RECURSIVE Orderings(_)
\* every sequence that lists each element of the finite set S exactly once
Orderings(S) ==
    IF S = {} THEN {<<>>}
    ELSE UNION {{<<x>> \o r : r \in Orderings(S \ {x})} : x \in S}

RECURSIVE SeqsUpTo(_, _)
\* every sequence over S of length at most n
SeqsUpTo(S, n) ==
    IF n = 0 THEN {<<>>}
    ELSE SeqsUpTo(S, n - 1) \cup
         {Append(s, x) : s \in {q \in SeqsUpTo(S, n - 1) : Len(q) = n - 1}, x \in S}

(***************************************************************************)
(* _bucket_tracks_by_phase                                                 *)
(***************************************************************************)
InRangeLowerOnly(bpm, r) == r[1] <= bpm

InRange(bpm, r) == r[1] <= bpm /\ bpm <= r[2]

Dist(bpm, r) == Min2(Abs(bpm - r[1]), Abs(bpm - r[2]))

ClosestLastKey(bpm, wr, pr, cr) ==
    LET dists == <<Dist(bpm, wr), Dist(bpm, pr), Dist(bpm, cr)>>
        least == CHOOSE d \in Range(dists) : \A e \in Range(dists) : d <= e
        last == CHOOSE i \in 1..3 : dists[i] = least /\ \A j \in (i + 1)..3 : dists[j] # least
    IN  phases[last]

\* min(dists, key=dists.get): the first key, in insertion order, of least value
Closest(bpm, wr, pr, cr) ==
    LET dists == <<Dist(bpm, wr), Dist(bpm, pr), Dist(bpm, cr)>>
        least == CHOOSE d \in Range(dists) : \A e \in Range(dists) : d <= e
        first == CHOOSE i \in 1..3 : dists[i] = least /\ \A j \in 1..(i - 1) : dists[j] # least
    IN  phases[first]

BucketOfCooldownFirst(bpm, wr, pr, cr) ==
    IF InRange(bpm, cr) THEN "cooldown"
    ELSE IF InRange(bpm, wr) THEN "warmup"
    ELSE IF InRange(bpm, pr) THEN "peak"
    ELSE Closest(bpm, wr, pr, cr)

BucketOfPeakFirst(bpm, wr, pr, cr) ==
    IF InRange(bpm, pr) THEN "peak"
    ELSE IF InRange(bpm, wr) THEN "warmup"
    ELSE IF InRange(bpm, cr) THEN "cooldown"
    ELSE Closest(bpm, wr, pr, cr)

BucketOfDropUnmatched(bpm, wr, pr, cr) ==
    IF InRange(bpm, wr) THEN "warmup"
    ELSE IF InRange(bpm, pr) THEN "peak"
    ELSE IF InRange(bpm, cr) THEN "cooldown"
    ELSE "dropped"

\* the if / elif chain of the loop body: the bucket one bpm value goes to
BucketOf(bpm, wr, pr, cr) ==
    IF InRange(bpm, wr) THEN "warmup"
    ELSE IF InRange(bpm, pr) THEN "peak"
    ELSE IF InRange(bpm, cr) THEN "cooldown"
    ELSE Closest(bpm, wr, pr, cr)

bucket_tracks_by_phase(tracks, wr, pr, cr) ==
    [p \in PhaseSet |->
        LET Goes(t) == t.has_bpm /\ BucketOf(t.bpm, wr, pr, cr) = p
        IN  SelectSeq(tracks, Goes)]

(***************************************************************************)
(* _phase_target_ms, _total_duration_ms, the requested track count         *)
(***************************************************************************)
\* int(workout_minutes * 60 * 1000 * frac), frac held in percent
phase_target_ms(minutes, frac_pct) == IntTrunc(minutes * 60 * 1000 * frac_pct, 100)

RECURSIVE total_duration_ms(_)
total_duration_ms(tracks) ==
    IF tracks = <<>> THEN 0
    ELSE tracks[1].duration_ms + total_duration_ms(Tail(tracks))

EstNeededWraps(needed_ms) ==
    Max2(MinRequested, ((needed_ms \div AvgTrackMs) + RequestBuffer) % MaxRequested)

EstNeededNoFloor(needed_ms) ==
    Min2(MaxRequested, (needed_ms \div AvgTrackMs) + RequestBuffer)

\* min(80, max(12, int(needed_ms / 180_000) + 6)), needed_ms > 0
est_needed(needed_ms) ==
    Min2(MaxRequested, Max2(MinRequested, (needed_ms \div AvgTrackMs) + RequestBuffer))

(***************************************************************************)
(* list.sort(key=bpm) and list.sort(key=bpm, reverse=True): both stable,   *)
(* tracks of equal bpm keep their relative order.                          *)
(***************************************************************************)
InsertByBpm(s, t, reverse) ==
    LET Stays(i) == IF reverse THEN s[i].bpm >= t.bpm ELSE s[i].bpm <= t.bpm
        k == Cardinality({i \in DOMAIN s : Stays(i)})
    IN  SubSeq(s, 1, k) \o <<t>> \o SubSeq(s, k + 1, Len(s))

RECURSIVE SortByBpm(_, _)
SortByBpm(s, reverse) ==
    IF s = <<>> THEN <<>>
    ELSE InsertByBpm(SortByBpm(SubSeq(s, 1, Len(s) - 1), reverse), s[Len(s)], reverse)

\* the phase-specific order: ascending for warmup, descending for cooldown,
\* list order for peak
PhaseSort(phase, s) ==
    IF phase = "warmup" THEN SortByBpm(s, FALSE)
    ELSE IF phase = "cooldown" THEN SortByBpm(s, TRUE)
    ELSE s

(***************************************************************************)
(* _ask_dedalus_to_curate.  The reply of the advisory service is a record  *)
(* [kind, ids]:                                                            *)
(*   "raise"      _call_dedalus raised (no key, transport, timeout, HTTP)  *)
(*   "nonjson"    the text is not JSON: json.loads raises                  *)
(*   "nonobject"  the JSON value has no .get: AttributeError               *)
(*   "nokey"      an object without track_ids                              *)
(*   "null"       track_ids is null                                        *)
(*   "scalar"     track_ids is a number or a boolean                       *)
(*   "unhashable" track_ids is a list holding a list or an object          *)
(*   "ids"        track_ids is a list of strings, ids                      *)
(***************************************************************************)
CaughtKinds == {"raise", "nonjson", "nonobject"}
ReturnedKinds == {"nokey", "null", "scalar", "unhashable", "ids"}
\* values the for loop over ordered_ids raises TypeError on
TypeErrorKinds == {"null", "scalar", "unhashable"}

Reply(kind, ids) == [kind |-> kind, ids |-> ids]

\* ids a reply can name that belong to no candidate: an invented id and the
\* ids of the familiar tracks that carry no bpm
UnknownIds == {"zz"} \cup {familiar_tracks[i].id : i \in {j \in DOMAIN familiar_tracks :
                                                        ~familiar_tracks[j].has_bpm}}

AdvisoryReplies(cands) ==
    {Reply(k, <<>>) : k \in (CaughtKinds \cup ReturnedKinds) \ {"ids"}} \cup
    {Reply("ids", s) : s \in SeqsUpTo(IdsOf(cands) \cup UnknownIds, MaxReply)}

AdvisoryAttemptsRetry(reply) == IF reply.kind \in CaughtKinds THEN 2 ELSE 1

\* resp = _call_dedalus(...) stands once in the try block, in no loop
AdvisoryAttempts(reply) == 1

IdList(s) == [i \in DOMAIN s |-> s[i].id]

\* the sort of the except branch
ExceptSort(phase, s) ==
    IF phase = "warmup" THEN SortByBpm(s, FALSE)
    ELSE IF phase = "cooldown" THEN SortByBpm(s, TRUE)
    ELSE s

AskUnsortedFallback(phase, cands, reply) ==
    IF reply.kind \in CaughtKinds
    THEN [value |-> "list", ids |-> IdList(cands), candidates |-> cands]
    ELSE IF reply.kind = "nokey"
    THEN [value |-> "list", ids |-> <<>>, candidates |-> cands]
    ELSE [value |-> IF reply.kind = "ids" THEN "list" ELSE reply.kind,
          ids |-> reply.ids, candidates |-> cands]

\* value: what ordered_ids is; ids: its elements when it is a list;
\* candidates: the caller's list, sorted in place by the except branch
ask_dedalus_to_curate(phase, cands, reply) ==
    IF reply.kind \in CaughtKinds
    THEN LET sorted == ExceptSort(phase, cands)
         IN  [value |-> "list", ids |-> IdList(sorted), candidates |-> sorted]
    ELSE IF reply.kind = "nokey"
    THEN [value |-> "list", ids |-> <<>>, candidates |-> cands]
    ELSE [value |-> IF reply.kind = "ids" THEN "list" ELSE reply.kind,
          ids |-> reply.ids, candidates |-> cands]

(***************************************************************************)
(* The phase body of curate_playlist after the advisory call.              *)
(***************************************************************************)
Tag(t, phase) == [t EXCEPT !.phase = phase]

IdToTrackAllFamiliar(cands) ==
    LET all == familiar_tracks \o cands
    IN  [i \in IdsOf(all) |->
            all[CHOOSE k \in DOMAIN all :
                   all[k].id = i /\ \A j \in DOMAIN all : all[j].id = i => j <= k]]

\* {t["id"]: t for t in candidates}: a later record replaces an earlier one
IdToTrack(cands) ==
    [i \in IdsOf(cands) |->
        cands[CHOOSE k \in DOMAIN cands :
                 cands[k].id = i /\ \A j \in DOMAIN cands : cands[j].id = i => j <= k]]

EmptySelection == [tracks |-> <<>>, added |-> {}, total |-> 0]

Take(sel, t, phase) ==
    [tracks |-> Append(sel.tracks, Tag(t, phase)),
     added |-> sel.added \cup {t.id},
     total |-> sel.total + t.duration_ms]

RECURSIVE OrderedLoopIgnoresTarget(_, _, _, _, _)
OrderedLoopIgnoresTarget(ids, m, phase, target, sel) ==
    IF ids = <<>> THEN sel
    ELSE LET tid == ids[1]
             next == IF tid \in DOMAIN m /\ tid \notin sel.added
                     THEN Take(sel, m[tid], phase)
                     ELSE sel
         IN  OrderedLoopIgnoresTarget(Tail(ids), m, phase, target, next)

RECURSIVE OrderedLoop(_, _, _, _, _)
\* for tid in ordered_ids: if tid in id_to_track and tid not in added_ids
\*                            and total_ms < target_ms: ...
OrderedLoop(ids, m, phase, target, sel) ==
    IF ids = <<>> THEN sel
    ELSE LET tid == ids[1]
             next == IF tid \in DOMAIN m /\ tid \notin sel.added /\ sel.total < target
                     THEN Take(sel, m[tid], phase)
                     ELSE sel
         IN  OrderedLoop(Tail(ids), m, phase, target, next)

RECURSIVE RemainingLoopStopEarly(_, _, _, _)
RemainingLoopStopEarly(rem, phase, target, sel) ==
    IF rem = <<>> \/ sel.total + rem[1].duration_ms > target THEN sel
    ELSE RemainingLoopStopEarly(Tail(rem), phase, target, Take(sel, rem[1], phase))

RECURSIVE RemainingLoop(_, _, _, _)
\* for track in remaining: if total_ms >= target_ms: break ...
RemainingLoop(rem, phase, target, sel) ==
    IF rem = <<>> \/ sel.total >= target THEN sel
    ELSE RemainingLoop(Tail(rem), phase, target, Take(sel, rem[1], phase))

TopUpPhaseSkipped(phase, cands, target, sel) == sel

\* if total_ms < target_ms: add the remaining candidates in phase order
TopUpPhase(phase, cands, target, sel) ==
    IF sel.total < target
    THEN LET Unused(t) == t.id \notin sel.added
             remaining == PhaseSort(phase, SelectSeq(cands, Unused))
         IN  RemainingLoop(remaining, phase, target, sel)
    ELSE sel

\* lines 477-505: the tracks selected for a phase from the advisory id list
BuildPhase(phase, cands, target, ids) ==
    TopUpPhase(phase, cands, target,
               OrderedLoop(ids, IdToTrack(cands), phase, target, EmptySelection)).tracks

\* the fallback / top-up loop alone, nothing pre-selected
FallbackOnly(phase, cands, target) ==
    TopUpPhase(phase, cands, target, EmptySelection).tracks

(***************************************************************************)
(* The final dedup pass: keep the first occurrence of every id.            *)
(***************************************************************************)
DedupKeepLast(s) ==
    LET last == {i \in DOMAIN s : \A j \in (i + 1)..Len(s) : s[j].id # s[i].id}
        kth(k) == CHOOSE i \in last : Cardinality({j \in last : j < i}) = k - 1
    IN  [k \in 1..Cardinality(last) |-> s[kth(k)]]

RECURSIVE DedupLoop(_, _, _)
DedupLoop(s, seen, acc) ==
    IF s = <<>> THEN acc
    ELSE IF s[1].id \in seen THEN DedupLoop(Tail(s), seen, acc)
    ELSE DedupLoop(Tail(s), seen \cup {s[1].id}, Append(acc, s[1]))

DedupNone(s) == s

Dedup(s) == DedupLoop(s, {}, <<>>)

(***************************************************************************)
(* search_tracks_by_bpm.  The rows that pass the BPM filter and the        *)
(* exclude set; the genre filter, the diversity sample and the artist cap  *)
(* keep some of them, the final shuffle orders them, head(limit) bounds    *)
(* their number.                                                           *)
(***************************************************************************)
EligibleEitherOrder(rows, min_bpm, max_bpm, exclude_ids) ==
    {r \in rows : /\ Min2(min_bpm, max_bpm) <= r.bpm
                  /\ r.bpm <= Max2(min_bpm, max_bpm)
                  /\ r.id \notin exclude_ids}

Eligible(rows, min_bpm, max_bpm, exclude_ids) ==
    {r \in rows : min_bpm <= r.bpm /\ r.bpm <= max_bpm /\ r.id \notin exclude_ids}

SearchResults(rows, min_bpm, max_bpm, exclude_ids, limit) ==
    {s \in UNION {Orderings(S) : S \in SUBSET Eligible(rows, min_bpm, max_bpm, exclude_ids)} :
        Len(s) <= limit}

\* A call of search_tracks_by_bpm returns a list or raises: pd.read_csv and
\* the column conversions of _load_full_dataset raise on a file that exists
\* but cannot be parsed, and neither the function nor its caller catches it.
SearchOutcomes(rows, min_bpm, max_bpm, exclude_ids, limit) ==
    {[raised |-> TRUE, tracks |-> <<>>]} \cup
    {[raised |-> FALSE, tracks |-> s] :
        s \in SearchResults(rows, min_bpm, max_bpm, exclude_ids, limit)}

\* the call sites of search_tracks_by_bpm stand in no loop and no retry
SearchAttempts(outcome) == 1

(***************************************************************************)
(* Inputs.                                                                 *)
(***************************************************************************)
Track(id, bpm, duration_ms, genre, source) ==
    [id |-> id, has_bpm |-> TRUE, bpm |-> bpm, duration_ms |-> duration_ms,
     genre |-> genre, source |-> source, phase |-> "none"]

\* a playlist track the BPM dataset does not know: enrich_tracks_with_bpm
\* leaves bpm = None
NoBpmTrack(id, duration_ms) ==
    [id |-> id, has_bpm |-> FALSE, bpm |-> 0, duration_ms |-> duration_ms,
     genre |-> "", source |-> "none", phase |-> "none"]

Plan(wr, pr, cr, wf, pf, cf) ==
    [warmup_bpm_range |-> wr, peak_bpm_range |-> pr, cooldown_bpm_range |-> cr,
     warmup_frac |-> wf, peak_frac |-> pf, cooldown_frac |-> cf]

DefaultPlan == Plan(<<90, 120>>, <<140, 180>>, <<90, 120>>, 25, 50, 25)
SplitPlan == Plan(<<100, 130>>, <<140, 180>>, <<70, 99>>, 25, 50, 25)
WidePlan == Plan(<<90, 180>>, <<90, 180>>, <<90, 180>>, 25, 50, 25)

phase_ranges(plan) ==
    [p \in PhaseSet |->
        IF p = "warmup" THEN plan.warmup_bpm_range
        ELSE IF p = "peak" THEN plan.peak_bpm_range
        ELSE plan.cooldown_bpm_range]

phase_fracs(plan) ==
    [p \in PhaseSet |->
        IF p = "warmup" THEN plan.warmup_frac
        ELSE IF p = "peak" THEN plan.peak_frac
        ELSE plan.cooldown_frac]

FamiliarPool ==
    {Track("f1", 100, 200000, "", "none"),
     Track("f2", 150, 200000, "", "none"),
     NoBpmTrack("f3", 200000)}

\* rows of the CSV; the dataset lists a track once per genre, so two rows can
\* carry the same track_id
MainDataset ==
    {Track("d1", 100, 200000, "pop", "discovery"),
     Track("d1", 100, 200000, "dance", "discovery"),
     Track("d2", 150, 180000, "rock", "discovery"),
     Track("d3", 95, 210000, "rock", "discovery")}

CandPool ==
    {Track("d1", 100, 200000, "pop", "discovery"),
     Track("d1", 100, 200000, "dance", "discovery"),
     Track("d2", 110, 250000, "rock", "discovery"),
     Track("d3", 100, 200000, "pop", "discovery"),
     Track("d4", 150, 180000, "rock", "discovery")}

Minutes == {4, 10, 600}
PhaseMinutes == {2, 20, 40}

NoReply == Reply("none", <<>>)
NoTopUp == [issued |-> FALSE, exclude |-> {}, result |-> <<>>]
NoBuckets == [p \in PhaseSet |-> <<>>]
NoBuild == [pc |-> "idle"]
NoHints == [pc |-> "idle"]
NoCalls == [advisory |-> [p \in PhaseSet |-> 0], search |-> [p \in PhaseSet |-> 0],
            topup |-> 0]

(***************************************************************************)
(* curate_playlist                                                         *)
(***************************************************************************)
Init ==
    /\ workout_plan \in {DefaultPlan, SplitPlan}
    /\ familiar_tracks \in SeqsUpTo(FamiliarPool, MaxFamiliar)
    /\ workout_minutes \in Minutes
    /\ dataset = MainDataset
    /\ pc = "start"
    /\ buckets = NoBuckets
    /\ familiar_ids = {}
    /\ phase_i = 1
    /\ target_ms = 0
    /\ candidates = <<>>
    /\ offered = <<>>
    /\ advisory = NoReply
    /\ phase_tracks = <<>>
    /\ final_playlist = <<>>
    /\ deduped = <<>>
    /\ searches = <<>>
    /\ topup = NoTopUp
    /\ calls = NoCalls
    /\ fallback_only = TRUE
    /\ build = NoBuild
    /\ hints = NoHints

TagSource(tracks) ==
    [i \in DOMAIN tracks |->
        IF tracks[i].source = "none" THEN [tracks[i] EXCEPT !.source = "familiar"]
        ELSE tracks[i]]

\* lines 386-434: tag the familiar tracks, bucket them, start the exclude set
Bucket ==
    /\ pc = "start"
    /\ LET tagged == TagSource(familiar_tracks)
           HasBpm(t) == t.has_bpm
           familiar_with_bpm == SelectSeq(tagged, HasBpm)
       IN  /\ familiar_tracks' = tagged
           /\ buckets' = bucket_tracks_by_phase(familiar_with_bpm,
                             workout_plan.warmup_bpm_range,
                             workout_plan.peak_bpm_range,
                             workout_plan.cooldown_bpm_range)
           /\ familiar_ids' = IdsOf(familiar_with_bpm)
    /\ pc' = "gap"
    /\ UNCHANGED <<workout_plan, workout_minutes, dataset, phase_i, target_ms,
                   candidates, offered, advisory, phase_tracks, final_playlist,
                   deduped, searches, topup, calls, fallback_only, build, hints>>

AfterPhase(i) == IF i = Len(phases) THEN "finish" ELSE "gap"

UsedAfterSearchForgets(used, discovery) == used

\* for d in discovery: familiar_ids.add(d["id"])
UsedAfterSearch(used, discovery) == used \cup IdsOf(discovery)

\* if familiar_ms < target_ms
NeedsDiscovery(familiar_ms, target) == familiar_ms < target

SkipPhaseNever(cands) == FALSE

\* if not candidates: continue
SkipPhase(cands) == cands = <<>>

\* the phase's candidates are known: skip the phase or go on to the advisory call
EnterPhase(cands) ==
    /\ candidates' = cands
    /\ IF SkipPhase(cands)
       THEN /\ pc' = AfterPhase(phase_i)
            /\ phase_i' = phase_i + 1
       ELSE /\ pc' = "curate"
            /\ UNCHANGED phase_i

\* lines 439-467: the target of the phase, its candidates, the gap-fill search
GapFill ==
    /\ pc = "gap"
    /\ LET phase == phases[phase_i]
           target == phase_target_ms(workout_minutes, phase_fracs(workout_plan)[phase])
           phase_familiar == buckets[phase]
           familiar_ms == total_duration_ms(phase_familiar)
           bpm_range == phase_ranges(workout_plan)[phase]
           limit == est_needed(target - familiar_ms)
       IN  /\ target_ms' = target
           /\ IF NeedsDiscovery(familiar_ms, target)
              THEN \E outcome \in SearchOutcomes(dataset, bpm_range[1], bpm_range[2],
                                                  familiar_ids, limit) :
                      /\ calls' = [calls EXCEPT
                                      !.search[phase] = @ + SearchAttempts(outcome)]
                      /\ IF outcome.raised
                         THEN /\ pc' = "search_raised"
                              /\ candidates' = phase_familiar
                              /\ UNCHANGED <<familiar_ids, searches, phase_i>>
                         ELSE /\ EnterPhase(phase_familiar \o outcome.tracks)
                              /\ familiar_ids' =
                                     UsedAfterSearch(familiar_ids, outcome.tracks)
                              /\ searches' = Append(searches,
                                     [phase |-> phase, exclude |-> familiar_ids,
                                      limit |-> limit, result |-> outcome.tracks])
              ELSE /\ EnterPhase(phase_familiar)
                   /\ UNCHANGED <<familiar_ids, searches, calls>>
    /\ offered' = <<>>
    /\ advisory' = NoReply
    /\ phase_tracks' = <<>>
    /\ UNCHANGED <<workout_plan, familiar_tracks, workout_minutes, dataset, buckets,
                   final_playlist, deduped, topup, fallback_only, build, hints>>

\* lines 469-507: the advisory call, the selection of the phase's tracks
Curate ==
    /\ pc = "curate"
    /\ \E reply \in AdvisoryReplies(candidates) :
          LET phase == phases[phase_i]
              r == ask_dedalus_to_curate(phase, candidates, reply)
          IN  /\ advisory' = reply
              /\ offered' = candidates
              /\ calls' = [calls EXCEPT
                              !.advisory[phase] = @ + AdvisoryAttempts(reply)]
              /\ fallback_only' = (fallback_only /\ reply.kind \in CaughtKinds)
              /\ candidates' = r.candidates
              /\ IF r.value \in TypeErrorKinds
                 THEN /\ pc' = "raised"
                      /\ UNCHANGED <<phase_tracks, final_playlist, phase_i>>
                 ELSE /\ phase_tracks' = BuildPhase(phase, r.candidates, target_ms, r.ids)
                      /\ final_playlist' = final_playlist \o phase_tracks'
                      /\ pc' = AfterPhase(phase_i)
                      /\ phase_i' = phase_i + 1
    /\ UNCHANGED <<workout_plan, familiar_tracks, workout_minutes, dataset, buckets,
                   familiar_ids, target_ms, deduped, searches, topup, build, hints>>

TopUpLoopAll(tracks, shortfall_ms, acc) ==
    acc \o [i \in DOMAIN tracks |-> Tag(tracks[i], "cooldown")]

RECURSIVE TopUpLoopTagsWarmup(_, _, _)
TopUpLoopTagsWarmup(tracks, shortfall_ms, acc) ==
    IF tracks = <<>> \/ shortfall_ms <= 0 THEN acc
    ELSE TopUpLoopTagsWarmup(Tail(tracks), shortfall_ms - tracks[1].duration_ms,
                             Append(acc, Tag(tracks[1], "warmup")))

RECURSIVE TopUpLoop(_, _, _)
\* for track in topup_tracks: if shortfall_ms <= 0: break ...
TopUpLoop(tracks, shortfall_ms, acc) ==
    IF tracks = <<>> \/ shortfall_ms <= 0 THEN acc
    ELSE TopUpLoop(Tail(tracks), shortfall_ms - tracks[1].duration_ms,
                   Append(acc, Tag(tracks[1], "cooldown")))

TopUpLimit == 20

NeedsTopUpAtThreshold(shortfall_ms) == shortfall_ms >= TopUpThresholdMs

\* if shortfall_ms > 2 * 60 * 1000
NeedsTopUp(shortfall_ms) == shortfall_ms > TopUpThresholdMs

\* lines 509-541: the global top-up, the final dedup pass, the return
Finish ==
    /\ pc = "finish"
    /\ LET target_total_ms == workout_minutes * 60 * 1000
           shortfall_ms == target_total_ms - total_duration_ms(final_playlist)
           all_used_ids == IdsOf(final_playlist)
           cooldown_range == workout_plan.cooldown_bpm_range
       IN  IF NeedsTopUp(shortfall_ms)
           THEN \E outcome \in SearchOutcomes(dataset, cooldown_range[1],
                                       cooldown_range[2], all_used_ids, TopUpLimit) :
                   /\ calls' = [calls EXCEPT !.topup = @ + SearchAttempts(outcome)]
                   /\ topup' = [issued |-> TRUE, exclude |-> all_used_ids,
                                result |-> outcome.tracks]
                   /\ IF outcome.raised
                      THEN /\ pc' = "search_raised"
                           /\ UNCHANGED <<final_playlist, deduped>>
                      ELSE /\ final_playlist' = final_playlist \o
                                  TopUpLoop(outcome.tracks, shortfall_ms, <<>>)
                           /\ deduped' = Dedup(final_playlist')
                           /\ pc' = "done"
           ELSE /\ deduped' = Dedup(final_playlist)
                /\ pc' = "done"
                /\ UNCHANGED <<final_playlist, topup, calls>>
    /\ offered' = <<>>
    /\ advisory' = NoReply
    /\ phase_tracks' = <<>>
    /\ UNCHANGED <<workout_plan, familiar_tracks, workout_minutes, dataset, buckets,
                   familiar_ids, phase_i, target_ms, candidates, searches,
                   fallback_only, build, hints>>

Next == Bucket \/ GapFill \/ Curate \/ Finish

Spec == Init /\ [][Next]_vars

(***************************************************************************)
(* _bucket_tracks_by_phase on its own: the plan's ranges and the tracks'   *)
(* bpm values are drawn from BucketRanges and BucketBpms, the only step is *)
(* the bucketing of curate_playlist.                                       *)
(***************************************************************************)
BucketRanges == {<<80, 120>>, <<130, 185>>, <<90, 120>>, <<100, 150>>, <<140, 180>>}
BucketBpms == {70, 85, 100, 125, 135, 150, 185, 200}
BucketTracks ==
    {Track("f1", b, 200000, "", "none") : b \in BucketBpms} \cup {NoBpmTrack("f3", 200000)}

InitBucket ==
    /\ workout_plan \in {Plan(wr, pr, cr, 25, 50, 25) : wr, pr, cr \in BucketRanges}
    /\ familiar_tracks \in SeqsUpTo(BucketTracks, MaxBucketTracks)
    /\ workout_minutes = 10
    /\ dataset = MainDataset
    /\ pc = "start"
    /\ buckets = NoBuckets
    /\ familiar_ids = {}
    /\ phase_i = 1
    /\ target_ms = 0
    /\ candidates = <<>>
    /\ offered = <<>>
    /\ advisory = NoReply
    /\ phase_tracks = <<>>
    /\ final_playlist = <<>>
    /\ deduped = <<>>
    /\ searches = <<>>
    /\ topup = NoTopUp
    /\ calls = NoCalls
    /\ fallback_only = TRUE
    /\ build = NoBuild
    /\ hints = NoHints

BucketSpec == InitBucket /\ [][Bucket]_vars

(***************************************************************************)
(* One phase on its own: curate_playlist stands before the advisory call   *)
(* of a phase whose candidates are the rows a gap-fill search returned     *)
(* from CandPool (no familiar track, the searches of the earlier phases    *)
(* returned nothing); the only step is the curation of that phase.         *)
(***************************************************************************)
EmptySearches(n, minutes) ==
    [k \in 1..n |->
        [phase |-> phases[k], exclude |-> {},
         limit |-> est_needed(phase_target_ms(minutes, phase_fracs(WidePlan)[phases[k]])),
         result |-> <<>>]]

InitPhase ==
    /\ workout_plan = WidePlan
    /\ familiar_tracks = <<>>
    /\ workout_minutes \in PhaseMinutes
    /\ dataset = CandPool
    /\ pc = "curate"
    /\ buckets = NoBuckets
    /\ phase_i \in 1..Len(phases)
    /\ target_ms = phase_target_ms(workout_minutes, phase_fracs(WidePlan)[phases[phase_i]])
    /\ candidates \in SearchResults(CandPool, 90, 180, {}, MaxCand) \ {<<>>}
    /\ familiar_ids = IdsOf(candidates)
    /\ offered = <<>>
    /\ advisory = NoReply
    /\ phase_tracks = <<>>
    /\ final_playlist = <<>>
    /\ deduped = <<>>
    /\ searches = Append(EmptySearches(phase_i - 1, workout_minutes),
                         [phase |-> phases[phase_i], exclude |-> {},
                          limit |-> est_needed(target_ms), result |-> candidates])
    /\ topup = NoTopUp
    /\ calls = [NoCalls EXCEPT !.search = [p \in PhaseSet |->
                                   IF PhaseIndex(p) <= phase_i THEN 1 ELSE 0]]
    /\ fallback_only = TRUE
    /\ build = NoBuild
    /\ hints = NoHints

PhaseSpec == InitPhase /\ [][Curate]_vars

(***************************************************************************)
(* The gap-fill requests on their own: the CSV is missing (every search    *)
(* that returns, returns nothing), the workout length runs over every      *)
(* minute count up to MaxGapMinutes, so that the requested count of line   *)
(* 448 is computed for a dense set of needed durations.                    *)
(***************************************************************************)
MaxGapMinutes == 460
MaxNeededSteps == 160

InitGap ==
    /\ workout_plan = DefaultPlan
    /\ familiar_tracks \in SeqsUpTo(FamiliarPool, 1)
    /\ workout_minutes \in 0..MaxGapMinutes
    /\ dataset = {}
    /\ pc = "start"
    /\ buckets = NoBuckets
    /\ familiar_ids = {}
    /\ phase_i = 1
    /\ target_ms = 0
    /\ candidates = <<>>
    /\ offered = <<>>
    /\ advisory = NoReply
    /\ phase_tracks = <<>>
    /\ final_playlist = <<>>
    /\ deduped = <<>>
    /\ searches = <<>>
    /\ topup = NoTopUp
    /\ calls = NoCalls
    /\ fallback_only = TRUE
    /\ build = NoBuild
    /\ hints = NoHints

GapSpec == InitGap /\ [][Bucket \/ GapFill]_vars

(***************************************************************************)
(* curate_playlist around the top-up threshold: a four-minute workout and  *)
(* familiar tracks whose durations leave the playlist 119, 120 or 121      *)
(* seconds short of it.                                                    *)
(***************************************************************************)
ThresholdPool ==
    {Track("t1", 100, 120000, "", "none"), Track("t2", 100, 119000, "", "none"),
     Track("t3", 150, 121000, "", "none")}

InitThreshold ==
    /\ workout_plan = DefaultPlan
    /\ familiar_tracks \in SeqsUpTo(ThresholdPool, MaxFamiliar)
    /\ workout_minutes = 4
    /\ dataset = MainDataset
    /\ pc = "start"
    /\ buckets = NoBuckets
    /\ familiar_ids = {}
    /\ phase_i = 1
    /\ target_ms = 0
    /\ candidates = <<>>
    /\ offered = <<>>
    /\ advisory = NoReply
    /\ phase_tracks = <<>>
    /\ final_playlist = <<>>
    /\ deduped = <<>>
    /\ searches = <<>>
    /\ topup = NoTopUp
    /\ calls = NoCalls
    /\ fallback_only = TRUE
    /\ build = NoBuild
    /\ hints = NoHints

ThresholdSpec == InitThreshold /\ [][Next]_vars

(***************************************************************************)
(* curate_playlist on plans at the edge: the default plan (warmup and      *)
(* cooldown ranges equal) and plans that hold all six keys but are         *)
(* malformed: a negative fraction, a zero fraction, fractions summing to   *)
(* more than one, a range with min > max.  The familiar tracks include bpm *)
(* values that lie outside every range.                                    *)
(***************************************************************************)
NegativeFracPlan == Plan(<<90, 120>>, <<140, 180>>, <<90, 120>>, -25, 100, 25)
ZeroFracPlan == Plan(<<90, 120>>, <<140, 180>>, <<90, 120>>, 25, 50, 0)
OverFracPlan == Plan(<<90, 120>>, <<140, 180>>, <<90, 120>>, 75, 75, 75)
InvertedPlan == Plan(<<120, 90>>, <<140, 180>>, <<90, 120>>, 25, 50, 25)
EdgePlans == {DefaultPlan, NegativeFracPlan, ZeroFracPlan, OverFracPlan, InvertedPlan}

EdgePool ==
    {Track("f1", 100, 200000, "", "none"), Track("f2", 150, 200000, "", "none"),
     Track("f4", 130, 200000, "", "none"), Track("f5", 85, 200000, "", "none")}

EdgeDataset ==
    {Track("d2", 150, 180000, "rock", "discovery"),
     Track("d3", 95, 210000, "rock", "discovery")}

InitPlan ==
    /\ workout_plan \in EdgePlans
    /\ familiar_tracks \in SeqsUpTo(EdgePool, MaxFamiliar)
    /\ workout_minutes = 10
    /\ dataset = EdgeDataset
    /\ pc = "start"
    /\ buckets = NoBuckets
    /\ familiar_ids = {}
    /\ phase_i = 1
    /\ target_ms = 0
    /\ candidates = <<>>
    /\ offered = <<>>
    /\ advisory = NoReply
    /\ phase_tracks = <<>>
    /\ final_playlist = <<>>
    /\ deduped = <<>>
    /\ searches = <<>>
    /\ topup = NoTopUp
    /\ calls = NoCalls
    /\ fallback_only = TRUE
    /\ build = NoBuild
    /\ hints = NoHints

PlanSpec == InitPlan /\ [][Next]_vars

(***************************************************************************)
(* The ten-track example: the default plan, ten familiar tracks of 210000  *)
(* ms, workouts of up to MaxExampleMinutes minutes (45 in the example);    *)
(* the steps are the bucketing and the gap-fill of the first phase.        *)
(***************************************************************************)
MaxExampleMinutes == 90
ExampleBpms == <<95, 100, 105, 150, 155, 160, 165, 170, 95, 100>>
ExampleIds == <<"e1", "e2", "e3", "e4", "e5", "e6", "e7", "e8", "e9", "e10">>
ExampleTracks ==
    [i \in DOMAIN ExampleBpms |-> Track(ExampleIds[i], ExampleBpms[i], 210000, "", "none")]

InitExample ==
    /\ workout_plan = DefaultPlan
    /\ familiar_tracks = ExampleTracks
    /\ workout_minutes \in 1..MaxExampleMinutes
    /\ dataset = MainDataset
    /\ pc = "start"
    /\ buckets = NoBuckets
    /\ familiar_ids = {}
    /\ phase_i = 1
    /\ target_ms = 0
    /\ candidates = <<>>
    /\ offered = <<>>
    /\ advisory = NoReply
    /\ phase_tracks = <<>>
    /\ final_playlist = <<>>
    /\ deduped = <<>>
    /\ searches = <<>>
    /\ topup = NoTopUp
    /\ calls = NoCalls
    /\ fallback_only = TRUE
    /\ build = NoBuild
    /\ hints = NoHints

ExampleSpec == InitExample /\ [][Bucket \/ GapFill]_vars

(***************************************************************************)
(* workout_playlist.py: _fill_phase and build_workout_playlist.  The       *)
(* fractions are the module defaults, in percent.                          *)
(***************************************************************************)
WARMUP_FRAC == 25
PEAK_FRAC == 50
COOLDOWN_FRAC == 25

RECURSIVE FillLoopCheckFirst(_, _, _, _)
FillLoopCheckFirst(cands, target, picked, total) ==
    IF cands = <<>> \/ total >= target THEN picked
    ELSE FillLoopCheckFirst(Tail(cands), target, Append(picked, cands[1]),
                            total + cands[1].duration_ms)

FillPhaseCheckFirst(cands, target) == FillLoopCheckFirst(cands, target, <<>>, 0)

RECURSIVE FillLoop(_, _, _, _)
\* for track in candidates: picked.append(track); total += ...;
\*                          if total >= target_ms: break
FillLoop(cands, target, picked, total) ==
    IF cands = <<>> THEN picked
    ELSE IF total + cands[1].duration_ms >= target THEN Append(picked, cands[1])
    ELSE FillLoop(Tail(cands), target, Append(picked, cands[1]),
                  total + cands[1].duration_ms)

fill_phase(cands, target) == FillLoop(cands, target, <<>>, 0)

\* lines 59-65 and 71: the tracks with a bpm, first record of each id, by bpm
Valid(tracks) ==
    LET HasBpm(t) == t.has_bpm
    IN  SortByBpm(Dedup(SelectSeq(tracks, HasBpm)), FALSE)

LowPoolNoFallback(valid) == SubSeq(valid, 1, Len(valid) \div 4)

\* low_pool = valid[:low_end] if low_end > 0 else valid[:1]
LowPool(valid) ==
    LET low_end == Len(valid) \div 4
    IN  IF low_end > 0 THEN SubSeq(valid, 1, low_end) ELSE SubSeq(valid, 1, 1)

\* mid_pool = valid[low_end:high_start] if low_end < high_start else []
MidPool(valid) ==
    LET low_end == Len(valid) \div 4
        high_start == Len(valid) \div 2
    IN  IF low_end < high_start THEN SubSeq(valid, low_end + 1, high_start) ELSE <<>>

\* high_pool = valid[high_start:] if high_start < n else valid[-1:]
HighPool(valid) ==
    LET n == Len(valid)
        high_start == n \div 2
    IN  IF high_start < n THEN SubSeq(valid, high_start + 1, n) ELSE SubSeq(valid, n, n)

\* lines 67-113 for one outcome of random.shuffle: the locals and the result
build_workout_playlist(tracks, minutes, peak_candidates) ==
    LET valid == Valid(tracks)
        total_ms == minutes * 60 * 1000
        warmup_ms == IntTrunc(total_ms * WARMUP_FRAC, 100)
        peak_ms == IntTrunc(total_ms * PEAK_FRAC, 100)
        cooldown_ms == IntTrunc(total_ms * COOLDOWN_FRAC, 100)
        warmup_candidates == SortByBpm(LowPool(valid) \o MidPool(valid), FALSE)
        cooldown_candidates == SortByBpm(LowPool(valid) \o MidPool(valid), TRUE)
        warmup == fill_phase(warmup_candidates, warmup_ms)
        peak == fill_phase(peak_candidates, peak_ms)
        cooldown == fill_phase(cooldown_candidates, cooldown_ms)
        redistributed == warmup = <<>> /\ cooldown = <<>>
        fills == <<[candidates |-> warmup_candidates, target_ms |-> warmup_ms,
                    picked |-> warmup],
                   [candidates |-> peak_candidates, target_ms |-> peak_ms,
                    picked |-> peak],
                   [candidates |-> cooldown_candidates, target_ms |-> cooldown_ms,
                    picked |-> cooldown]>>
    IN  IF valid = <<>>
        THEN [pc |-> "returned", tracks |-> tracks, workout_minutes |-> minutes,
              valid |-> valid, fills |-> <<>>, redistributed |-> FALSE,
              playlist |-> <<>>]
        ELSE [pc |-> "returned", tracks |-> tracks, workout_minutes |-> minutes,
              valid |-> valid, fills |-> fills, redistributed |-> redistributed,
              playlist |-> IF redistributed
                           THEN fill_phase(SortByBpm(valid, FALSE), total_ms)
                           ELSE warmup \o peak \o cooldown]

MaxBuildTracks == 4
BuildMinutes == {0, 5, 12}

\* the second record of "b1" is the same track listed by a second playlist
BuildPool ==
    {Track("b1", 90, 200000, "", "none"), Track("b1", 90, 200000, "again", "none"),
     Track("b2", 100, 180000, "", "none"), Track("b3", 150, 240000, "", "none"),
     Track("b4", 170, 200000, "", "none"), NoBpmTrack("b5", 200000)}

\* curate_playlist is not running
CurateIdle ==
    /\ workout_plan = DefaultPlan
    /\ familiar_tracks = <<>>
    /\ workout_minutes = 0
    /\ dataset = {}
    /\ pc = "idle"
    /\ buckets = NoBuckets
    /\ familiar_ids = {}
    /\ phase_i = 1
    /\ target_ms = 0
    /\ candidates = <<>>
    /\ offered = <<>>
    /\ advisory = NoReply
    /\ phase_tracks = <<>>
    /\ final_playlist = <<>>
    /\ deduped = <<>>
    /\ searches = <<>>
    /\ topup = NoTopUp
    /\ calls = NoCalls
    /\ fallback_only = TRUE

InitBuild ==
    /\ CurateIdle
    /\ hints = NoHints
    /\ build \in {[pc |-> "called", tracks |-> t, workout_minutes |-> m] :
                     t \in SeqsUpTo(BuildPool, MaxBuildTracks), m \in BuildMinutes}

\* random.shuffle(peak_candidates): any order of high_pool (nothing is
\* shuffled when the function returns at line 68)
ShuffledHighPool(valid) ==
    IF valid = <<>> THEN {<<>>} ELSE Orderings(Range(HighPool(valid)))

\* one call of build_workout_playlist, for every outcome of the shuffle
BuildPlaylist ==
    /\ build.pc = "called"
    /\ \E peak_candidates \in ShuffledHighPool(Valid(build.tracks)) :
          build' = build_workout_playlist(build.tracks, build.workout_minutes,
                                          peak_candidates)
    /\ UNCHANGED <<cvars, hints>>

BuildSpec == InitBuild /\ [][BuildPlaylist]_vars

(***************************************************************************)
(* _ask_dedalus_discovery_hints and the genre merge of curate_playlist.    *)
(* A JSON value is a record [kind, ...]: "null", "number" (n), "string"    *)
(* (s) or "list" (items, a sequence of such values).  genre_pref is held   *)
(* as the sequence of its stripped comma-separated pieces, <<>> for the    *)
(* empty string.  The reply of the hints call is a record [kind, ...]:     *)
(*   "raise"      _call_dedalus raised                                     *)
(*   "nonjson"    json.loads raises                                        *)
(*   "nonobject"  the JSON value has no .get: AttributeError               *)
(*   "object"     an object; genres and artist_hints hold the values of    *)
(*                these keys, Absent for a missing key                     *)
(***************************************************************************)
MaxHintItems == 2

Null == [kind |-> "null"]
Num(n) == [kind |-> "number", n |-> n]
Str(x) == [kind |-> "string", s |-> x]
List(items) == [kind |-> "list", items |-> items]
Absent == [kind |-> "absent"]

HintItems == {Str("rock"), Str("Pop"), Num(5), Null}
HintValues ==
    {Null, Num(0), Num(5), Str(""), Str("pop")}
        \cup {List(items) : items \in SeqsUpTo(HintItems, MaxHintItems)}
HintReplies ==
    {[kind |-> "raise"], [kind |-> "nonjson"], [kind |-> "nonobject"]}
        \cup {[kind |-> "object", genres |-> g, artist_hints |-> a] :
                 g \in HintValues \cup {Absent}, a \in HintValues \cup {Absent}}
GenrePrefs == {<<>>, <<"pop">>, <<"Pop", "rock">>, <<"pop", "">>}

\* bool(v) of a JSON value
Truthy(v) ==
    CASE v.kind = "null" -> FALSE
      [] v.kind = "number" -> v.n # 0
      [] v.kind = "string" -> v.s # ""
      [] v.kind = "list" -> v.items # <<>>

\* str.lower() on the strings of the model
Lower(x) == IF x = "Pop" THEN "pop" ELSE x

\* list(x) of a string: its characters
Chars(x) == IF x = "pop" THEN <<"p", "o", "p">> ELSE IF x = "" THEN <<>> ELSE <<x>>

\* result.get(key, []) for the value held under the key
GetOrEmpty(v) == IF v.kind = "absent" THEN List(<<>>) ELSE v

\* fallback: the non-empty stripped pieces of genre_pref, no artist hints
HintsFallback(genre_pref) ==
    [genres |-> List([i \in DOMAIN SelectSeq(genre_pref, LAMBDA g : g # "")
                         |-> Str(SelectSeq(genre_pref, LAMBDA g : g # "")[i])]),
     artist_hints |-> List(<<>>)]

\* the value _ask_dedalus_discovery_hints returns
ask_dedalus_discovery_hints(genre_pref, reply) ==
    IF reply.kind # "object" THEN HintsFallback(genre_pref)
    ELSE IF ~Truthy(GetOrEmpty(reply.genres)) /\ ~Truthy(GetOrEmpty(reply.artist_hints))
         THEN HintsFallback(genre_pref)
         ELSE [genres |-> GetOrEmpty(reply.genres),
               artist_hints |-> GetOrEmpty(reply.artist_hints)]

\* the for loop of lines 415-419 from piece i on: [raised, list]
RECURSIVE MergeLoop(_, _, _)
MergeLoop(genre_pref, i, all_genres_list) ==
    IF i > Len(genre_pref) THEN [raised |-> FALSE, list |-> all_genres_list]
    ELSE IF Lower(genre_pref[i]) = ""
         THEN MergeLoop(genre_pref, i + 1, all_genres_list)
         ELSE IF \E k \in DOMAIN all_genres_list : all_genres_list[k].kind # "string"
              THEN [raised |-> TRUE, list |-> all_genres_list]
              ELSE IF \E k \in DOMAIN all_genres_list :
                          Lower(all_genres_list[k].s) = Lower(genre_pref[i])
                   THEN MergeLoop(genre_pref, i + 1, all_genres_list)
                   ELSE MergeLoop(genre_pref, i + 1,
                                  Append(all_genres_list, Str(Lower(genre_pref[i]))))

\* lines 414-420 of curate_playlist on the hints returned: the outcome is
\* "list" (list(hint_genres) raised), "lower" (x.lower() raised), "join"
\* (", ".join raised) or "merged" with the genres joined
merge_genres(genre_pref, hint_genres) ==
    IF hint_genres.kind \in {"null", "number"}
    THEN [pc |-> "raised", at |-> "list", all_genres_list |-> <<>>]
    ELSE LET listed == IF hint_genres.kind = "string"
                       THEN [i \in DOMAIN Chars(hint_genres.s) |->
                                Str(Chars(hint_genres.s)[i])]
                       ELSE hint_genres.items
             merged == IF genre_pref # <<>> THEN MergeLoop(genre_pref, 1, listed)
                       ELSE [raised |-> FALSE, list |-> listed]
         IN  IF merged.raised
             THEN [pc |-> "raised", at |-> "lower", all_genres_list |-> merged.list]
             ELSE IF \E k \in DOMAIN merged.list : merged.list[k].kind # "string"
                  THEN [pc |-> "raised", at |-> "join", all_genres_list |-> merged.list]
                  ELSE [pc |-> "merged", at |-> "none", all_genres_list |-> merged.list]

InitHints ==
    /\ CurateIdle
    /\ build = NoBuild
    /\ hints \in {[pc |-> "called", genre_pref |-> g, reply |-> r] :
                     g \in GenrePrefs, r \in HintReplies}

\* discovery_hints = _ask_dedalus_discovery_hints(familiar_with_bpm, genre_pref)
AskHints ==
    /\ hints.pc = "called"
    /\ hints' = [pc |-> "returned", genre_pref |-> hints.genre_pref,
                 reply |-> hints.reply,
                 result |-> ask_dedalus_discovery_hints(hints.genre_pref, hints.reply)]
    /\ UNCHANGED <<cvars, build>>

\* the merge of the hinted genres with the user's, lines 410-420
MergeGenres ==
    /\ hints.pc = "returned"
    /\ LET m == merge_genres(hints.genre_pref, hints.result.genres)
       IN  hints' = [pc |-> m.pc, genre_pref |-> hints.genre_pref,
                     reply |-> hints.reply, result |-> hints.result,
                     at |-> m.at, all_genres_list |-> m.all_genres_list]
    /\ UNCHANGED <<cvars, build>>

HintsSpec == InitHints /\ [][AskHints \/ MergeGenres]_vars

(***************************************************************************)
(* Properties.                                                             *)
(***************************************************************************)
\* the phases gap-filling has already dealt with
Processed(i) == i < phase_i \/ (i = phase_i /\ pc \in {"curate", "raised"})
\* a phase has just been curated: its locals are still in place
JustCurated == advisory.kind # "none" /\ pc # "raised"
CuratedPhase == phases[phase_i - 1]
TagAll(s, phase) == [i \in DOMAIN s |-> Tag(s[i], phase)]
Prefix(s, n) == SubSeq(s, 1, n)

\* the example of the overshoot rule: four candidates of 200000 ms
FourTracks ==
    <<Track("a", 100, 200000, "", "familiar"), Track("b", 105, 200000, "", "familiar"),
      Track("c", 110, 200000, "", "familiar"), Track("d", 115, 200000, "", "familiar")>>

\* the advisory reply selected nothing: no key, or no id of a candidate
NothingPreselected ==
    \/ advisory.kind = "nokey"
    \/ advisory.kind = "ids" /\ Range(advisory.ids) \cap IdsOf(offered) = {}

\* the familiar tracks that carry a bpm, the ranges that hold a bpm value,
\* the buckets that hold a track
BpmTracks == {familiar_tracks[i] : i \in {j \in DOMAIN familiar_tracks : familiar_tracks[j].has_bpm}}
RangesHolding(bpm) == {p \in PhaseSet : InRange(bpm, phase_ranges(workout_plan)[p])}
BucketsHolding(t) == {p \in PhaseSet : t \in Range(buckets[p])}

\* the first of warmup, peak, cooldown in the set of phases S
FirstOf(S) == CHOOSE i \in 1..3 : phases[i] \in S /\ \A j \in 1..(i - 1) : phases[j] \notin S

\* the phases of least min(|bpm-min|, |bpm-max|)
Nearest(bpm) ==
    {p \in PhaseSet :
        \A q \in PhaseSet : Dist(bpm, phase_ranges(workout_plan)[p])
                                <= Dist(bpm, phase_ranges(workout_plan)[q])}

\* needed_ms of a phase: its target minus the duration of its familiar tracks
NeededMs(p) ==
    phase_target_ms(workout_minutes, phase_fracs(workout_plan)[p])
        - total_duration_ms(buckets[p])

NeededSamples == {k * 90000 : k \in 1..MaxNeededSteps}

\* shortfall of the playlist built by the phases, as Finish finds it
ShortfallMs == workout_minutes * 60 * 1000 - total_duration_ms(final_playlist)

\* the positions of s that hold the first entry of their id
FirstIdx(s) == {i \in DOMAIN s : \A j \in 1..(i - 1) : s[j].id # s[i].id}
KthOf(S, k) == CHOOSE i \in S : Cardinality({j \in S : j < i}) = k - 1
FirstOccurrences(s) == [k \in 1..Cardinality(FirstIdx(s)) |-> s[KthOf(FirstIdx(s), k)]]

\* no familiar track carries a bpm and every search so far returned []
NothingToOffer ==
    /\ \A i \in DOMAIN familiar_tracks : ~familiar_tracks[i].has_bpm
    /\ pc # "search_raised"
    /\ \A k \in DOMAIN searches : searches[k].result = <<>>
    /\ topup.result = <<>>

\* the phase had a candidate: a familiar track in its bucket or a search row
HadCandidates(p) ==
    \/ buckets[p] # <<>>
    \/ \E k \in DOMAIN searches : searches[k].phase = p /\ searches[k].result # <<>>

\* the tracks of s tagged p, in the order of s, have non-decreasing bpm
AscendingIn(s, p) ==
    \A i, j \in DOMAIN s :
        (i < j /\ s[i].phase = p /\ s[j].phase = p) => s[i].bpm <= s[j].bpm

\* the tracks of s tagged p, in the order of s, have non-increasing bpm
DescendingIn(s, p) ==
    \A i, j \in DOMAIN s :
        (i < j /\ s[i].phase = p /\ s[j].phase = p) => s[i].bpm >= s[j].bpm

\* every track of s carries a phase, and s runs warmup, peak, cooldown
Grouped(s) ==
    /\ \A i \in DOMAIN s : s[i].phase \in PhaseSet
    /\ \A i, j \in DOMAIN s :
          i < j => PhaseIndex(s[i].phase) <= PhaseIndex(s[j].phase)

PhasesOf(s) == {s[i].phase : i \in DOMAIN s}

\* the familiar tracks that carry no bpm
NoBpmFamiliar ==
    {familiar_tracks[i] : i \in {j \in DOMAIN familiar_tracks : ~familiar_tracks[j].has_bpm}}

\* every track the run has placed anywhere: buckets, candidates, playlists
Placed ==
    UNION {Range(buckets[p]) : p \in PhaseSet} \cup Range(candidates)
        \cup Range(phase_tracks) \cup Range(final_playlist) \cup Range(deduped)

\* a range with min > max
Inverted(r) == r[1] > r[2]

\* a plan with all six keys whose fractions do not sum to one or one of whose
\* ranges is inverted
Malformed(plan) ==
    \/ plan.warmup_frac + plan.peak_frac + plan.cooldown_frac # 100
    \/ \E p \in PhaseSet : Inverted(phase_ranges(plan)[p])

\* the prefixes of s, from length lo on, whose durations sum to target or more
ReachingPrefixes(s, target, lo) ==
    {n \in lo..Len(s) : total_duration_ms(Prefix(s, n)) >= target}

\* the shortest prefix of s of length lo or more that reaches target, all of
\* s if none does
ShortestPrefix(s, target, lo) ==
    IF ReachingPrefixes(s, target, lo) = {} THEN s
    ELSE Prefix(s, CHOOSE n \in ReachingPrefixes(s, target, lo) :
                       \A m \in ReachingPrefixes(s, target, lo) : n <= m)

\* the calls of _fill_phase a finished build_workout_playlist has made
Fills == IF build.pc = "returned" THEN Range(build.fills) ELSE {}

\* C1: no two entries of the playlist curate_playlist returns have the same
\* id, whatever the familiar list, the advisory replies and the search
\* results were.
C1_NoDuplicateIds == pc = "done" => DistinctIds(deduped)

C1_Witness == pc = "done" /\ deduped # <<>> /\ Len(deduped) < Len(final_playlist)

\* C2: whatever the advisory curation call does, curate_playlist does not
\* raise.
C2_NeverRaises == pc # "raised"

\* C3 as stated: for a curated phase, candidates with distinct ids whose
\* durations reach the target yield a selection that reaches the target, and
\* candidates whose durations stay below the target are all selected.
C3_AllSelectedWhenShort ==
    JustCurated =>
        /\ (DistinctIds(offered) /\ total_duration_ms(offered) >= target_ms)
              => total_duration_ms(phase_tracks) >= target_ms
        /\ total_duration_ms(offered) < target_ms
              => \A i \in DOMAIN offered :
                    Tag(offered[i], CuratedPhase) \in Range(phase_tracks)

\* C3 as amended: the selection reaches the target when candidates with
\* distinct ids allow it; when the candidates' durations stay below the
\* target every candidate id is selected, and every candidate when the ids
\* are distinct.
C3_TargetReachedOrAllIds ==
    JustCurated =>
        /\ (DistinctIds(offered) /\ total_duration_ms(offered) >= target_ms)
              => total_duration_ms(phase_tracks) >= target_ms
        /\ total_duration_ms(offered) < target_ms
              => /\ IdsOf(offered) = IdsOf(phase_tracks)
                 /\ DistinctIds(offered)
                       => \A i \in DOMAIN offered :
                             Tag(offered[i], CuratedPhase) \in Range(phase_tracks)

C3_Witness ==
    /\ JustCurated
    /\ advisory.kind = "ids" /\ Range(advisory.ids) \cap IdsOf(offered) # {}
    /\ ~DistinctIds(offered)
    /\ total_duration_ms(offered) < target_ms
    /\ IdsOf(offered) = IdsOf(phase_tracks)
    /\ Len(phase_tracks) < Len(offered)

\* C4: with distinct candidate ids, a raising or unparsable advisory call
\* leaves the phase with exactly the sequence the fallback loop produces on
\* the same candidate list with nothing pre-selected.
C4_FailureEqualsFallback ==
    (JustCurated /\ advisory.kind \in CaughtKinds /\ DistinctIds(offered))
        => phase_tracks = FallbackOnly(CuratedPhase, offered, target_ms)

C4_Witness ==
    /\ JustCurated /\ advisory.kind \in CaughtKinds /\ DistinctIds(offered)
    /\ CuratedPhase = "cooldown"
    /\ Len(phase_tracks) >= 2 /\ Len(phase_tracks) < Len(offered)
    /\ phase_tracks[1].id # offered[1].id

\* C5: when nothing is pre-selected the fallback selects the shortest prefix
\* of the phase-sorted candidates whose durations reach the target (all of
\* them when none does); four 200000 ms candidates and a 600000 ms target
\* give the first three.
C5_MinimalPrefix ==
    /\ (JustCurated /\ NothingPreselected) =>
          LET sorted == TagAll(PhaseSort(CuratedPhase, offered), CuratedPhase)
              n == Len(phase_tracks)
          IN  /\ n <= Len(sorted)
              /\ phase_tracks = Prefix(sorted, n)
              /\ n < Len(sorted) => total_duration_ms(phase_tracks) >= target_ms
              /\ n > 0 => total_duration_ms(Prefix(sorted, n - 1)) < target_ms
    /\ FallbackOnly("warmup", FourTracks, 600000) = TagAll(Prefix(FourTracks, 3), "warmup")

C5_Witness ==
    /\ JustCurated /\ NothingPreselected
    /\ Len(offered) = 3 /\ Len(phase_tracks) = 2
    /\ total_duration_ms(phase_tracks) > target_ms
    /\ phase_tracks[1].id # offered[1].id

\* C6: _bucket_tracks_by_phase puts every track that has a bpm in exactly
\* one bucket, drops none, and puts a track whose bpm lies in exactly one
\* range in that range's bucket.
C6_ExactlyOneBucket ==
    pc = "gap" =>
        /\ Len(buckets["warmup"]) + Len(buckets["peak"]) + Len(buckets["cooldown"])
               = Cardinality({j \in DOMAIN familiar_tracks : familiar_tracks[j].has_bpm})
        /\ \A t \in BpmTracks :
              /\ Cardinality(BucketsHolding(t)) = 1
              /\ \A p \in PhaseSet : RangesHolding(t.bpm) = {p} => BucketsHolding(t) = {p}

C6_Witness ==
    /\ pc = "gap"
    /\ \E t \in BpmTracks : RangesHolding(t.bpm) = {"cooldown"} /\ BucketsHolding(t) = {"cooldown"}
    /\ \E t \in BpmTracks : RangesHolding(t.bpm) = {} /\ Cardinality(BucketsHolding(t)) = 1

\* C7: a track whose bpm lies in more than one range goes to the first of
\* warmup, peak, cooldown whose range holds it.
C7_FirstMatchingPhase ==
    pc = "gap" =>
        \A t \in BpmTracks :
            Cardinality(RangesHolding(t.bpm)) > 1
                => BucketsHolding(t) = {phases[FirstOf(RangesHolding(t.bpm))]}

C7_Witness ==
    /\ pc = "gap"
    /\ \E t \in BpmTracks : RangesHolding(t.bpm) = {"peak", "cooldown"} /\ BucketsHolding(t) = {"peak"}
    /\ \E t \in BpmTracks : RangesHolding(t.bpm) = PhaseSet /\ BucketsHolding(t) = {"warmup"}

\* C8: a track whose bpm lies in no range goes to the phase of least
\* min(|bpm-min|, |bpm-max|), the first of warmup, peak, cooldown among
\* equals; bpm 200 with warmup [80,120], peak [130,185], cooldown [80,120]
\* goes to peak.
C8_NearestPhase ==
    /\ pc = "gap" =>
          \A t \in BpmTracks :
              RangesHolding(t.bpm) = {}
                  => BucketsHolding(t) = {phases[FirstOf(Nearest(t.bpm))]}
    /\ BucketOf(200, <<80, 120>>, <<130, 185>>, <<80, 120>>) = "peak"

C8_Witness ==
    /\ pc = "gap"
    /\ workout_plan.warmup_bpm_range = <<80, 120>>
    /\ workout_plan.peak_bpm_range = <<130, 185>>
    /\ workout_plan.cooldown_bpm_range = <<80, 120>>
    /\ \E t \in BpmTracks : t.bpm = 200 /\ BucketsHolding(t) = {"peak"}
    /\ \E t \in BpmTracks : t.bpm = 70 /\ Nearest(t.bpm) = {"warmup", "cooldown"}
                            /\ BucketsHolding(t) = {"warmup"}

\* C9: the exclude set of a phase's discovery search holds every BPM-tagged
\* familiar id and every id the searches of the earlier phases returned, the
\* searches follow the order warmup, peak, cooldown, and no id is returned
\* to two phases.
C9_ExcludeAccumulates ==
    pc # "start" =>
        \A k \in DOMAIN searches :
            /\ {t.id : t \in BpmTracks} \subseteq searches[k].exclude
            /\ \A j \in 1..(k - 1) :
                  /\ PhaseIndex(searches[j].phase) < PhaseIndex(searches[k].phase)
                  /\ IdsOf(searches[j].result) \subseteq searches[k].exclude
                  /\ IdsOf(searches[j].result) \cap IdsOf(searches[k].result) = {}

C9_Witness ==
    /\ Len(searches) = 3
    /\ BpmTracks # {}
    /\ \A k \in DOMAIN searches : searches[k].result # <<>>

\* C10: a phase's discovery search is issued exactly when the phase's
\* familiar duration is below its target (otherwise the candidates are the
\* familiar tracks alone), and every search asks for 12 to 80 tracks.
C10_SearchIffShort ==
    pc # "start" =>
        /\ \A i \in 1..3 :
              Processed(i) =>
                 ((\E k \in DOMAIN searches : searches[k].phase = phases[i])
                    <=> total_duration_ms(buckets[phases[i]])
                          < phase_target_ms(workout_minutes, phase_fracs(workout_plan)[phases[i]]))
        /\ (pc = "curate" /\ ~(\E k \in DOMAIN searches : searches[k].phase = phases[phase_i]))
              => candidates = buckets[phases[phase_i]]
        /\ \A k \in DOMAIN searches :
              MinRequested <= searches[k].limit /\ searches[k].limit <= MaxRequested

C10_Witness ==
    /\ pc = "curate" /\ phase_i = 2
    /\ candidates = buckets["peak"]
    /\ Len(searches) = 1 /\ searches[1].phase = "warmup"
    /\ searches[1].result # <<>>

\* C11: the requested count min(80, max(12, needed_ms div 180000 + 6)) never
\* decreases when needed_ms grows: the count of every gap-fill search issued
\* is at least the count of every smaller needed duration and at most the
\* count of every larger one, and the counts of two searches of one run are
\* ordered as their needed durations.
C11_RequestMonotone ==
    /\ \A k \in DOMAIN searches : \A a \in NeededSamples :
          /\ a <= NeededMs(searches[k].phase) => est_needed(a) <= searches[k].limit
          /\ a >= NeededMs(searches[k].phase) => est_needed(a) >= searches[k].limit
    /\ \A j, k \in DOMAIN searches :
          NeededMs(searches[j].phase) <= NeededMs(searches[k].phase)
              => searches[j].limit <= searches[k].limit

C11_Witness ==
    /\ Len(searches) >= 2
    /\ NeededMs(searches[1].phase) < NeededMs(searches[2].phase)
    /\ MinRequested < searches[1].limit
    /\ searches[1].limit < searches[2].limit
    /\ searches[2].limit < MaxRequested

\* C12: the step that ends curate_playlist issues the global top-up search
\* exactly when workout_minutes * 60000 minus the total duration of the
\* playlist the phases built is strictly greater than 120000 ms: a shortfall
\* of exactly 120000 ms issues none, a shortfall of 121000 ms issues one.
C12_TopUpIffOverThreshold ==
    [][pc = "finish" =>
          /\ topup'.issued <=> ShortfallMs > 120000
          /\ ShortfallMs = 120000 => ~topup'.issued
          /\ ShortfallMs = 121000 => topup'.issued]_vars

C12_Witness ==
    /\ pc = "done"
    /\ ~topup.issued
    /\ final_playlist # <<>>
    /\ ShortfallMs = 120000

C14_DedupFirstOccurrence ==
    pc = "done" =>
        /\ deduped = FirstOccurrences(final_playlist)
        /\ Dedup(deduped) = deduped
        /\ Dedup(Dedup(final_playlist)) = Dedup(final_playlist)

C14_Witness ==
    /\ pc = "done"
    /\ Len(deduped) >= 2
    /\ \E i, j, k \in DOMAIN final_playlist :
          /\ i < j /\ j < k
          /\ final_playlist[i].id = final_playlist[k].id
          /\ final_playlist[i] # final_playlist[k]
          /\ final_playlist[j].id # final_playlist[i].id

C16_SearchFailureCaught == pc # "search_raised"

\* C17: every external call site makes at most one attempt: the advisory
\* call at most once per phase and not at all for a phase without
\* candidates, the search at most once per phase and at most once for the
\* top-up; a call that failed or returned too little is not repeated.
C17_AtMostOneAttempt ==
    /\ \A p \in PhaseSet :
          /\ calls.advisory[p] <= 1
          /\ calls.search[p] <= 1
          /\ calls.advisory[p] = 1 => HadCandidates(p)
          /\ Cardinality({k \in DOMAIN searches : searches[k].phase = p})
                 <= calls.search[p]
    /\ calls.topup <= 1
    /\ topup.issued => calls.topup = 1

C17_Witness ==
    /\ pc = "done"
    /\ fallback_only
    /\ calls.advisory["warmup"] = 1
    /\ calls.advisory["peak"] = 0
    /\ calls.search["peak"] = 1
    /\ calls.advisory["cooldown"] = 1
    /\ \E k \in DOMAIN searches :
          /\ searches[k].phase = "cooldown"
          /\ Len(searches[k].result) < searches[k].limit
    /\ calls.topup = 1

\* C18: when the advisory call of every phase fails, so that the fallback
\* orders every phase, the returned playlist has its warmup-tagged tracks in
\* non-decreasing bpm order and its cooldown-tagged tracks, those appended
\* by the global top-up included, in non-increasing bpm order.
C18_FallbackMonotone ==
    (/\ pc = "done"
     /\ fallback_only
     /\ \A p \in PhaseSet : calls.advisory[p] = 1) =>
        /\ AscendingIn(deduped, "warmup")
        /\ DescendingIn(deduped, "cooldown")

\* C19: every track of the returned playlist carries a phase that is
\* warmup, peak or cooldown, and the playlist is grouped by phase: all
\* warmup tracks, then all peak tracks, then all cooldown tracks.
C19_PhasesGrouped ==
    /\ Grouped(final_playlist)
    /\ pc = "done" => Grouped(deduped)

C19_Witness ==
    /\ pc = "done"
    /\ PhasesOf(deduped) = PhaseSet
    /\ topup.issued
    /\ Len(final_playlist) > Len(deduped)
    /\ \E i \in DOMAIN deduped : deduped[i].id \in IdsOf(topup.result)

\* C20: a familiar track without a bpm is never put into a bucket, never
\* offered as a candidate, never tagged with a phase and never part of the
\* playlist, even when the advisory reply names its id.
C20_NoBpmNeverPlaced ==
    /\ \A t \in Placed : t.has_bpm
    /\ \A t \in NoBpmFamiliar :
          /\ t.phase = "none"
          /\ t.id \notin {u.id : u \in Placed}

C20_Witness ==
    /\ JustCurated
    /\ advisory.kind = "ids"
    /\ phase_tracks # <<>>
    /\ \E t \in NoBpmFamiliar : t.id \in Range(advisory.ids)

\* C21: the tracks selected for one phase, before the final dedup pass,
\* never hold the same id twice, whatever the candidate list (two candidate
\* records of one id included) and whatever the advisory reply.
C21_PhaseDistinctIds == JustCurated => DistinctIds(phase_tracks)

C28_OvershootOneTrack ==
    JustCurated =>
        /\ phase_tracks # <<>> =>
              total_duration_ms(phase_tracks)
                  - phase_tracks[Len(phase_tracks)].duration_ms < target_ms
        /\ target_ms <= 0 => phase_tracks = <<>>

C28_Witness ==
    /\ JustCurated
    /\ target_ms <= 0
    /\ advisory.kind = "ids"
    /\ \E i \in DOMAIN advisory.ids : advisory.ids[i] \in IdsOf(offered)
    /\ phase_tracks = <<>>

\* C29: when the plan's warmup and cooldown ranges are equal, the bucketing
\* puts no track into the cooldown bucket, so every cooldown candidate is a
\* discovery track and no familiar track is ever tagged cooldown.
C29_CooldownBucketEmpty ==
    workout_plan.warmup_bpm_range = workout_plan.cooldown_bpm_range =>
        /\ buckets["cooldown"] = <<>>
        /\ (pc = "curate" /\ phases[phase_i] = "cooldown") =>
              \A t \in Range(candidates) : t.source = "discovery"
        /\ \A t \in Range(final_playlist) \cup Range(deduped) :
              t.phase = "cooldown" => t.source = "discovery"

C29_Witness ==
    /\ pc = "done"
    /\ workout_plan.warmup_bpm_range = workout_plan.cooldown_bpm_range
    /\ \E i \in DOMAIN familiar_tracks : familiar_tracks[i].bpm = 85
    /\ \E i \in DOMAIN familiar_tracks : familiar_tracks[i].bpm = 130
    /\ \E t \in Range(deduped) : t.phase = "cooldown"

\* C24 as stated: for the ten familiar tracks with bpm values 95, 100, 105,
\* 150, 155, 160, 165, 170, 95, 100 and the default ranges the bucketing
\* yields 6 tracks in the warmup and cooldown buckets together and 4 tracks
\* in the peak bucket.
C24_SixAndFour ==
    pc # "start" =>
        /\ Len(buckets["warmup"]) + Len(buckets["cooldown"]) = 6
        /\ Len(buckets["peak"]) = 4

\* C24 amended: for those ten tracks and ranges the bucketing yields 5 tracks
\* in the warmup bucket (bpm 95, 100, 105, 95, 100, in list order), none in
\* the cooldown bucket, and 5 tracks in the peak bucket (bpm 150 to 170).
C24_FiveAndFive ==
    pc # "start" =>
        /\ [i \in DOMAIN buckets["warmup"] |-> buckets["warmup"][i].bpm]
              = <<95, 100, 105, 95, 100>>
        /\ buckets["cooldown"] = <<>>
        /\ [i \in DOMAIN buckets["peak"] |-> buckets["peak"][i].bpm]
              = <<150, 155, 160, 165, 170>>

C24_Witness ==
    /\ pc = "gap"
    /\ phase_i = 1
    /\ Len(familiar_tracks) = Len(ExampleBpms)
    /\ Len(buckets["warmup"]) + Len(buckets["peak"]) = Len(ExampleBpms)

\* C23: build_workout_playlist returns a playlist in which no track id
\* appears more than once, for every input.
C23_BuildNoDuplicates == build.pc = "returned" => DistinctIds(build.playlist)

\* C25 as stated: _fill_phase returns the shortest prefix of its candidates
\* whose cumulative duration is >= target_ms (all candidates if none reaches
\* it) for every target, target_ms <= 0 included: without the last picked
\* track the total is strictly below target_ms.
C25_ShortestPrefix ==
    \A f \in Fills :
        /\ f.picked = ShortestPrefix(f.candidates, f.target_ms, 0)
        /\ f.picked # <<>> =>
              total_duration_ms(f.picked) - f.picked[Len(f.picked)].duration_ms
                  < f.target_ms

\* C25 amended: _fill_phase returns the shortest non-empty prefix of its
\* candidates whose cumulative duration is >= target_ms (all candidates if
\* none reaches it, nothing for no candidates); for target_ms > 0 the total
\* without the last picked track is strictly below target_ms, for
\* target_ms <= 0 the result is the first candidate alone.
C25_ShortestNonEmptyPrefix ==
    \A f \in Fills :
        /\ f.picked = ShortestPrefix(f.candidates, f.target_ms, 1)
        /\ (f.picked # <<>> /\ f.target_ms > 0) =>
              total_duration_ms(f.picked) - f.picked[Len(f.picked)].duration_ms
                  < f.target_ms
        /\ (f.candidates # <<>> /\ f.target_ms <= 0) => f.picked = <<f.candidates[1]>>

C25_Witness ==
    /\ \E f \in Fills : f.target_ms <= 0 /\ Len(f.candidates) >= 2 /\ Len(f.picked) = 1
    /\ build.workout_minutes = 0

\* C30: when at least one input track has a bpm, the warmup and the cooldown
\* section of build_workout_playlist are both non-empty, the redistribution
\* branch is not taken and the result is warmup + peak + cooldown; with no
\* BPM-tagged track the result is the empty list.
C30_SectionsNonEmpty ==
    build.pc = "returned" =>
        IF \E i \in DOMAIN build.tracks : build.tracks[i].has_bpm
        THEN /\ build.fills[1].picked # <<>>
             /\ build.fills[3].picked # <<>>
             /\ ~build.redistributed
             /\ build.playlist = build.fills[1].picked \o build.fills[2].picked
                                     \o build.fills[3].picked
        ELSE build.playlist = <<>>

C30_Witness ==
    /\ build.pc = "returned"
    /\ build.workout_minutes = 0
    /\ Len(build.valid) = 1
    /\ Len(build.tracks) > 1
    /\ Len(build.playlist) = 3

\* C26: _ask_dedalus_discovery_hints returns a dict whose genres and
\* artist_hints values are lists of strings, the fallback when the reply is
\* malformed, and the genre merge of curate_playlist never raises because of
\* the hints reply.
C26_HintsWellFormed ==
    /\ hints.pc \in {"returned", "merged", "raised"} =>
          \A v \in {hints.result.genres, hints.result.artist_hints} :
              v.kind = "list" /\ \A i \in DOMAIN v.items : v.items[i].kind = "string"
    /\ hints.pc # "raised"

\* C27: when the returned, deduplicated playlist is more than 120000 ms
\* short of workout_minutes * 60000, the global top-up search was issued and
\* every track it returned is in the playlist, records of one id in
\* familiar_tracks or in a search result included.
C27_ShortImpliesToppedUp ==
    (pc = "done" /\ workout_minutes * 60000 - total_duration_ms(deduped) > 120000) =>
        /\ topup.issued
        /\ IdsOf(topup.result) \subseteq IdsOf(deduped)
====
